---- MODULE Spec2Model ----
(***************************************************************************)
(* Parts catalog API (crocoback): the listing endpoint getAllParts with    *)
(* its query-filter compiler and paginator, over a document store of       *)
(* Part records.                                                           *)
(*                                                                         *)
(* Strings are sequences of one-character strings, so that parseInt,       *)
(* startsWith, JSON.parse and regular-expression matching work on the      *)
(* characters.  Timestamps are day numbers; record identifiers are         *)
(* integers ordered as ObjectIds are.                                      *)
(***************************************************************************)
EXTENDS Integers, Sequences, FiniteSets, TLC

\* ---------------------------------------------------------------- bounds
NumParts  == 4   \* size of the pool the stored parts are drawn from
MaxPage   == 3   \* page parameters denote the integers -MaxPage..MaxPage
MaxLimit  == 2   \* limit parameters denote the integers -MaxLimit..MaxLimit
MaxParams == 3   \* number of filter parameters present in one request

\* ------------------------------------------------------- program constants
DefaultPage  == 1
DefaultLimit == 50

\* ---------------------------------------------------------------- strings
Digits == <<"0", "1", "2", "3", "4", "5", "6", "7", "8", "9">>

IsDigit(c) == \E i \in 1..10 : Digits[i] = c

DigitVal(c) == (CHOOSE i \in 1..10 : Digits[i] = c) - 1

RECURSIVE NatToStr(_)
NatToStr(n) ==
  IF n < 10 THEN <<Digits[n + 1]>>
  ELSE NatToStr(n \div 10) \o <<Digits[(n % 10) + 1]>>

\* the decimal text a client sends for the integer n
IntToStr(n) == IF n < 0 THEN <<"-">> \o NatToStr(-n) ELSE NatToStr(n)

Range(s) == {s[i] : i \in 1..Len(s)}

Lower(c) ==
  CASE c = "A" -> "a"
    [] c = "B" -> "b"
    [] c = "P" -> "p"
    [] OTHER   -> c

LowerStr(s) == [i \in 1..Len(s) |-> Lower(s[i])]

IsSubstr(t, s) ==
  \E i \in 0..(Len(s) - Len(t)) : \A j \in 1..Len(t) : s[i + j] = t[j]

StartsWith(s, c) == Len(s) > 0 /\ s[1] = c

\* ----------------------------------------------------------------- parseInt
\* value of the longest digit prefix of s from position i, acc so far;
\* n counts the digits consumed
RECURSIVE DigitPrefix(_, _, _, _)
DigitPrefix(s, i, acc, n) ==
  IF i <= Len(s) /\ IsDigit(s[i])
  THEN DigitPrefix(s, i + 1, acc * 10 + DigitVal(s[i]), n + 1)
  ELSE [val |-> acc, n |-> n]

\* parseInt(string): optional sign, then the longest prefix of decimal
\* digits; NaN when there is no digit.  (Parameters here carry no white
\* space and no 0x prefix.)
ParseInt(s) ==
  LET neg   == StartsWith(s, "-")
      start == IF neg \/ StartsWith(s, "+") THEN 2 ELSE 1
      d     == DigitPrefix(s, start, 0, 0)
  IN  IF d.n = 0 THEN [nan |-> TRUE, val |-> 0]
      ELSE [nan |-> FALSE, val |-> IF neg THEN -d.val ELSE d.val]

\* parseInt(x) || dflt : NaN and 0 are falsy
OrDefault(p, dflt) == IF p.nan \/ p.val = 0 THEN dflt ELSE p.val

\* --------------------------------------------------------------- JSON.parse
\* JSON.parse of a text that starts with "[": an array of string literals
\* "[" ( '"' chars '"' ( "," '"' chars '"' )* )? "]", and a SyntaxError
\* for anything else.  (Parameters here are written over the characters
\* [ ] " , and letters, without nesting, numbers or white space.)
QuoteEnd(s, i) ==
  IF \E j \in (i + 1)..Len(s) : s[j] = "\""
  THEN CHOOSE j \in (i + 1)..Len(s) :
         s[j] = "\"" /\ \A k \in (i + 1)..(j - 1) : s[k] /= "\""
  ELSE 0

RECURSIVE ParseElems(_, _, _)
ParseElems(s, i, acc) ==
  IF i > Len(s) \/ s[i] /= "\"" THEN [ok |-> FALSE, arr |-> <<>>]
  ELSE LET j == QuoteEnd(s, i)
       IN  IF j = 0 \/ j + 1 > Len(s) THEN [ok |-> FALSE, arr |-> <<>>]
           ELSE LET elems == Append(acc, SubSeq(s, i + 1, j - 1))
                IN  IF s[j + 1] = "]"
                    THEN [ok  |-> j + 1 = Len(s),
                          arr |-> IF j + 1 = Len(s) THEN elems ELSE <<>>]
                    ELSE IF s[j + 1] = ","
                    THEN ParseElems(s, j + 2, elems)
                    ELSE [ok |-> FALSE, arr |-> <<>>]

JSONParse(s) ==
  IF ~StartsWith(s, "[") THEN [ok |-> FALSE, arr |-> <<>>]
  ELSE IF s = <<"[", "]">> THEN [ok |-> TRUE, arr |-> <<>>]
  ELSE ParseElems(s, 2, <<>>)

\* ------------------------------------------------------------------ new Date
DatePrefix == <<"2", "0", "2", "4", "-", "0", "1", "-", "0">>

\* the text of day d (1..9) of January 2024
DateStr(d) == DatePrefix \o <<Digits[d + 1]>>

\* new Date(text): the day number, or Invalid Date
ParseDate(s) ==
  IF Len(s) = 10 /\ SubSeq(s, 1, 9) = DatePrefix /\ IsDigit(s[10]) /\ s[10] /= "0"
  THEN [valid |-> TRUE, t |-> DigitVal(s[10])]
  ELSE [valid |-> FALSE, t |-> 0]

\* ------------------------------------------------------------ stored parts
TagA  == <<"A">>
TagB  == <<"B">>
TagBr == <<"[", "A">>

\* the i-th part of the pool: partNumber is unique, identifiers grow with
\* i, and consecutive parts share a creation timestamp
PartAt(i) ==
  [id          |-> i,
   createdAt   |-> (i + 1) \div 2,
   partNumber  |-> <<"P">> \o NatToStr(i),
   partName    |-> IF i % 2 = 1 THEN <<"A", "b">> ELSE <<"B", "a">>,
   partDescription |-> IF i % 3 = 0 THEN <<>> ELSE <<"a", "B">>,
   category    |-> CASE i % 4 = 1 -> <<TagA>>
                     [] i % 4 = 2 -> <<TagA, TagB>>
                     [] i % 4 = 3 -> <<TagB>>
                     [] OTHER     -> <<TagB, TagA, TagBr>>,
   subCategory |-> IF i % 2 = 0 THEN <<TagA>> ELSE <<>>,
   supplier    |-> IF i % 3 = 1 THEN <<TagA, TagB>> ELSE <<TagB>>,
   alternativePartNumbers |-> IF i % 2 = 1 THEN << <<"A", "1">> >> ELSE <<>>]

PartPool == {PartAt(i) : i \in 1..NumParts}

\* ------------------------------------------------------------ filter compiler
ArrayFields == {"category", "subCategory", "supplier", "alternativePartNumbers"}

Truthy(q, k) == k \in DOMAIN q /\ q[k] /= <<>>

Regex(term) == [op |-> "$regex", pattern |-> term, options |-> "i"]

\* mutant: a parsed array compiles to contains-any
TagFilterAny(raw) ==
  IF StartsWith(raw, "[")
  THEN LET p == JSONParse(raw)
       IN  IF p.ok THEN [op |-> "$in", vals |-> p.arr]
           ELSE [op |-> "$in", vals |-> <<raw>>]
  ELSE [op |-> "$in", vals |-> <<raw>>]

\* mutant: the catch block falls back to an empty tag list
TagFilterNoFallback(raw) ==
  IF StartsWith(raw, "[")
  THEN LET p == JSONParse(raw)
       IN  IF p.ok THEN [op |-> "$all", vals |-> p.arr]
           ELSE [op |-> "$all", vals |-> <<>>]
  ELSE [op |-> "$in", vals |-> <<raw>>]

\* the try/catch around JSON.parse of one set-valued parameter
TagFilter(raw) ==
  IF StartsWith(raw, "[")
  THEN LET p == JSONParse(raw)
       IN  IF p.ok THEN [op |-> "$all", vals |-> p.arr]
           ELSE [op |-> "$in", vals |-> <<raw>>]
  ELSE [op |-> "$in", vals |-> <<raw>>]

GlobalSearchFields ==
  <<"partNumber", "partName", "partDescription", "category", "subCategory",
    "supplier", "alternativePartNumbers">>

OrFilter(term) ==
  [op |-> "$or",
   alts |-> [i \in 1..Len(GlobalSearchFields) |->
               [field |-> GlobalSearchFields[i], cond |-> Regex(term)]]]

Entry(present, key, cond) == IF present THEN key :> cond ELSE <<>>

\* mutant: the description filter is left out
FieldFiltersNoDescription(q) ==
     Entry(Truthy(q, "partNumber"), "partNumber", Regex(q["partNumber"]))
  @@ Entry(Truthy(q, "partName"), "partName", Regex(q["partName"]))
  @@ Entry(Truthy(q, "category"), "category", TagFilter(q["category"]))
  @@ Entry(Truthy(q, "subCategory"), "subCategory", TagFilter(q["subCategory"]))
  @@ Entry(Truthy(q, "supplier"), "supplier", TagFilter(q["supplier"]))
  @@ Entry(Truthy(q, "alternativePartNumber"), "alternativePartNumbers",
           Regex(q["alternativePartNumber"]))

FieldFilters(q) ==
     Entry(Truthy(q, "partNumber"), "partNumber", Regex(q["partNumber"]))
  @@ Entry(Truthy(q, "partName"), "partName", Regex(q["partName"]))
  @@ Entry(Truthy(q, "category"), "category", TagFilter(q["category"]))
  @@ Entry(Truthy(q, "subCategory"), "subCategory", TagFilter(q["subCategory"]))
  @@ Entry(Truthy(q, "supplier"), "supplier", TagFilter(q["supplier"]))
  @@ Entry(Truthy(q, "alternativePartNumber"), "alternativePartNumbers",
           Regex(q["alternativePartNumber"]))
  @@ Entry(Truthy(q, "description"), "partDescription", Regex(q["description"]))

\* mutant: a start date alone opens a range up to the last day
DateFilterStartOnly(q) ==
  Entry(Truthy(q, "startDate"), "createdAt",
        [op |-> "$range", gte |-> ParseDate(q["startDate"]),
         lte |-> IF Truthy(q, "endDate") THEN ParseDate(q["endDate"])
                 ELSE [valid |-> TRUE, t |-> 9]])

DateFilter(q) ==
  Entry(Truthy(q, "startDate") /\ Truthy(q, "endDate"), "createdAt",
        [op |-> "$range", gte |-> ParseDate(q["startDate"]),
         lte |-> ParseDate(q["endDate"])])

\* mutant: the field filters are applied next to the global search
BuildFilterNoElse(q) ==
  (IF Truthy(q, "globalSearch")
   THEN "$or" :> OrFilter(q["globalSearch"])
   ELSE <<>>)
  @@ FieldFilters(q) @@ DateFilter(q)

BuildFilter(q) ==
  (IF Truthy(q, "globalSearch")
   THEN "$or" :> OrFilter(q["globalSearch"])
   ELSE FieldFilters(q))
  @@ DateFilter(q)

\* -------------------------------------------------------- the document store
\* case-insensitive regular-expression match of a pattern without
\* metacharacters: the pattern occurs in the text
RegexMatch(text, cond) == IsSubstr(LowerStr(cond.pattern), LowerStr(text))

\* a condition on an array field holds when some element satisfies it
FieldRegex(part, field, cond) ==
  IF field \in ArrayFields
  THEN \E i \in 1..Len(part[field]) : RegexMatch(part[field][i], cond)
  ELSE RegexMatch(part[field], cond)

CondHolds(part, field, cond) ==
  CASE cond.op = "$regex" -> FieldRegex(part, field, cond)
    [] cond.op = "$all" ->
         /\ cond.vals /= <<>>
         /\ Range(cond.vals) \subseteq Range(part[field])
    [] cond.op = "$in" -> Range(cond.vals) \cap Range(part[field]) /= {}
    [] cond.op = "$range" ->
         cond.gte.t <= part.createdAt /\ part.createdAt <= cond.lte.t
    [] cond.op = "$or" ->
         \E i \in 1..Len(cond.alts) :
           FieldRegex(part, cond.alts[i].field, cond.alts[i].cond)

Matches(part, filter) ==
  \A k \in DOMAIN filter : CondHolds(part, k, filter[k])

\* the query cannot be cast to the schema: an Invalid Date bound
CastFails(filter) ==
  /\ "createdAt" \in DOMAIN filter
  /\ ~filter["createdAt"].gte.valid \/ ~filter["createdAt"].lte.valid

CountDocuments(parts, filter) ==
  Cardinality({p \in parts : Matches(p, filter)})

\* mutant: the sort without its tie-break
SortSpecNoTie == <<[field |-> "createdAt", dir |-> -1]>>

\* .sort({ createdAt: -1, _id: -1 })
SortSpec ==
  <<[field |-> "createdAt", dir |-> -1], [field |-> "_id", dir |-> -1]>>

SortKey(part, field) == IF field = "_id" THEN part.id ELSE part[field]

\* a comes strictly before b under the keys i.. of the sort
RECURSIVE Before(_, _, _)
Before(a, b, i) ==
  IF i > Len(SortSpec) THEN FALSE
  ELSE LET ka == SortKey(a, SortSpec[i].field) * SortSpec[i].dir
           kb == SortKey(b, SortSpec[i].field) * SortSpec[i].dir
       IN  ka < kb \/ (ka = kb /\ Before(a, b, i + 1))

\* every order the store may return the set S in: records that the sort
\* keys do not separate come in any order
RECURSIVE Orders(_)
Orders(S) ==
  IF S = {} THEN {<<>>}
  ELSE UNION {{<<m>> \o t : t \in Orders(S \ {m})} :
                m \in {x \in S : \A y \in S : ~Before(y, x, 1)}}

Abs(n) == IF n < 0 THEN -n ELSE n

Min(a, b) == IF a < b THEN a ELSE b

\* .skip(skip).limit(limit) on an ordered result; a negative limit is
\* sent to the server as its absolute value
Window(order, skip, limit) ==
  SubSeq(order, skip + 1, Min(skip + Abs(limit), Len(order)))

\* mutant: the quotient rounded down
CeilAsFloor(a, b) == IF b > 0 THEN a \div b ELSE -((a + (-b) - 1) \div (-b))

\* Math.ceil(a / b) for a >= 0 and b /= 0
Ceil(a, b) == IF b > 0 THEN (a + b - 1) \div b ELSE -(a \div (-b))

\* ------------------------------------------------------------------ state
VARIABLES
  store,     \* the set of stored Part documents
  req,       \* the listing request in flight: its position and locals
  resp,      \* the response sent for it
  storeOps,  \* the store calls it has issued, in order
  walk,      \* a client fetching page 1, 2, ... of one listing
  job,       \* the maintenance request in flight (reference repair or
             \* bulk generation): its position and locals
  jobResp,   \* the response sent for it
  jobOps,    \* the store calls it has issued, in order
  hist,      \* what each finished maintenance request left behind
  idSeq      \* the last record identifier handed out

jobVars == <<job, jobResp, jobOps, hist, idSeq>>

listVars == <<req, resp, storeOps, walk>>

vars == <<store, req, resp, storeOps, walk, job, jobResp, jobOps, hist, idSeq>>

NoResp == [status |-> 0]

NoneEcho == [literal |-> "None"]

\* mutant: the catch block answers as if the request had succeeded
ServerErrorAsSuccess == [status |-> 200, success |-> TRUE]

\* the answer of the catch block of every handler
ServerError == [status |-> 500, success |-> FALSE]

NoWalk == [on |-> FALSE]

\* ------------------------------------------------------------- getAllParts
\* parseInt(req.query.k as string): an absent parameter parses to NaN
ParseParam(q, k) ==
  IF k \in DOMAIN q THEN ParseInt(q[k]) ELSE [nan |-> TRUE, val |-> 0]

PageOf(q) == OrDefault(ParseParam(q, "page"), DefaultPage)

LimitOf(q) == OrDefault(ParseParam(q, "limit"), DefaultLimit)

\* mutant: the compiled predicate is echoed even when it is empty
FiltersEchoAlways(filter) == filter

\* Object.keys(filter).length > 0 ? filter : "None"
FiltersEcho(filter) == IF DOMAIN filter /= {} THEN filter ELSE NoneEcho

\* mutant: a zero-based page number
SkipOfZeroBased(page, limit) == page * limit

SkipOf(page, limit) == (page - 1) * limit

\* mutant: an inclusive comparison
HasMoreInclusive(skip, returned, total) == skip + returned <= total

HasMore(skip, returned, total) == skip + returned < total

\* lines 13-142: parse page and limit, compile the filter, count
GetAllPartsCount(q) ==
  /\ req.pc = "idle"
  /\ LET page   == PageOf(q)
         limit  == LimitOf(q)
         skip   == SkipOf(page, limit)
         filter == BuildFilter(q)
         locals == [query |-> q, page |-> page, limit |-> limit,
                    skip |-> skip, filter |-> filter]
     IN  /\ storeOps' = <<[op |-> "countDocuments", filter |-> filter]>>
         /\ IF CastFails(filter)
            THEN /\ req' = [pc |-> "done", total |-> 0] @@ locals
                 /\ resp' = ServerError
            ELSE /\ req' = [pc |-> "find",
                            total |-> CountDocuments(store, filter)] @@ locals
                 /\ resp' = NoResp
  /\ UNCHANGED store

\* lines 146-169: find the window, respond
GetAllPartsFind ==
  /\ req.pc = "find"
  /\ storeOps' = Append(storeOps,
       [op |-> "find", filter |-> req.filter, sort |-> SortSpec,
        skip |-> req.skip, limit |-> req.limit])
  /\ req' = [req EXCEPT !.pc = "done"]
  /\ IF req.skip < 0
     THEN resp' = ServerError
     ELSE \E order \in Orders({p \in store : Matches(p, req.filter)}) :
            LET parts == Window(order, req.skip, req.limit)
            IN  resp' = [status  |-> 200,
                         success |-> TRUE,
                         count   |-> Len(parts),
                         total   |-> req.total,
                         currentPage |-> req.page,
                         totalPages  |-> Ceil(req.total, req.limit),
                         hasMore |-> HasMore(req.skip, Len(parts), req.total),
                         filters |-> FiltersEcho(req.filter),
                         data    |-> parts]
  /\ UNCHANGED store

\* the handler has returned: the next request starts from its first line
GetAllPartsReturn ==
  /\ req.pc = "done"
  /\ req' = [pc |-> "idle"]
  /\ resp' = NoResp
  /\ storeOps' = <<>>
  /\ UNCHANGED store

\* ------------------------------------------------------------------ inputs
\* the partial functions with at most one key k, valued in vals
Opt(k, vals) == {<<>>} \cup {k :> v : v \in vals}

PageTexts ==
  {IntToStr(n) : n \in (-MaxPage)..MaxPage} \cup {<<"x">>, <<"2", "x">>, <<>>}

LimitTexts == {IntToStr(n) : n \in (-MaxLimit)..MaxLimit} \cup {<<"x">>}

ArrAB     == <<"[", "\"", "A", "\"", ",", "\"", "B", "\"", "]">>
ArrA      == <<"[", "\"", "A", "\"", "]">>
ArrEmpty  == <<"[", "]">>
ArrBroken == <<"[", "\"", "A", "\"", ",">>

\* requests that vary the page and the size
PagingQueries ==
  {a @@ b @@ c : a \in Opt("page", PageTexts), b \in Opt("limit", LimitTexts),
                 c \in Opt("category", {TagA})}

FilterParams ==
  <<"globalSearch", "partNumber", "partName", "description",
    "alternativePartNumber", "category", "subCategory", "supplier",
    "startDate", "endDate", "foo">>

ParamVals(k) ==
  CASE k = "globalSearch" -> {<<"a">>}
    [] k = "partNumber"   -> {<<"p", "1">>}
    [] k = "partName"     -> {<<"b">>}
    [] k = "description"  -> {<<"B">>}
    [] k = "alternativePartNumber" -> {<<"a", "1">>}
    [] k = "category"     -> {TagA, ArrAB, TagBr, ArrEmpty, <<>>}
    [] k = "subCategory"  -> {TagA, ArrA}
    [] k = "supplier"     -> {TagB, ArrAB, ArrBroken}
    [] k = "startDate"    -> {DateStr(1), DateStr(2), <<"x">>}
    [] k = "endDate"      -> {DateStr(2)}
    [] OTHER              -> {<<"x">>}

\* the requests that carry at most n of the parameters i.. of FilterParams
RECURSIVE QueriesFrom(_, _)
QueriesFrom(i, n) ==
  IF i > Len(FilterParams) THEN {<<>>}
  ELSE QueriesFrom(i + 1, n) \cup
       (IF n = 0 THEN {}
        ELSE {(FilterParams[i] :> v) @@ r :
                v \in ParamVals(FilterParams[i]), r \in QueriesFrom(i + 1, n - 1)})

\* requests that vary the filter parameters
FilterQueries == QueriesFrom(1, MaxParams)

Queries == PagingQueries \cup FilterQueries

\* listings a client walks page by page: a fixed filter and a size >= 1
WalkQueries ==
  {b @@ c : b \in Opt("limit", {IntToStr(n) : n \in 1..MaxLimit}),
            c \in Opt("category", {TagA}) \cup Opt("globalSearch", {<<"a">>})}

\* ----------------------------------------------------------- specification
Init ==
  /\ store \in SUBSET PartPool
  /\ req = [pc |-> "idle"]
  /\ resp = NoResp
  /\ storeOps = <<>>
  /\ walk = NoWalk
  /\ job = [pc |-> "idle"]
  /\ jobResp = NoResp
  /\ jobOps = <<>>
  /\ hist = <<>>
  /\ idSeq = NumParts

ListCount ==
  \E q \in Queries : GetAllPartsCount(q) /\ UNCHANGED <<walk, jobVars>>

ListFind == GetAllPartsFind /\ UNCHANGED <<walk, jobVars>>

ListReturn == GetAllPartsReturn /\ UNCHANGED <<walk, jobVars>>

Next == ListCount \/ ListFind \/ ListReturn

Spec == Init /\ [][Next]_vars

\* a client fetches pages 1, 2, ... of one listing until the reported
\* totalPages is reached
PartIds(parts) == [i \in 1..Len(parts) |-> parts[i].id]

WalkBegin ==
  /\ ~walk.on
  /\ req.pc = "idle"
  /\ \E q \in WalkQueries :
       walk' = [on |-> TRUE, base |-> q, next |-> 1, seen |-> <<>>,
                done |-> FALSE, ok |-> TRUE]
  /\ UNCHANGED <<store, req, resp, storeOps, jobVars>>

WalkRequest ==
  /\ walk.on /\ ~walk.done
  /\ GetAllPartsCount(("page" :> IntToStr(walk.next)) @@ walk.base)
  /\ UNCHANGED <<walk, jobVars>>

WalkReceive ==
  /\ walk.on /\ ~walk.done
  /\ GetAllPartsFind
  /\ walk' = IF resp'.status = 200
             THEN [walk EXCEPT !.seen = @ \o PartIds(resp'.data),
                               !.next = @ + 1,
                               !.done = walk.next >= resp'.totalPages]
             ELSE [walk EXCEPT !.done = TRUE, !.ok = FALSE]
  /\ UNCHANGED jobVars

WalkReturn == walk.on /\ GetAllPartsReturn /\ UNCHANGED <<walk, jobVars>>

NextWalk == WalkBegin \/ WalkRequest \/ WalkReceive \/ WalkReturn

SpecWalk == Init /\ [][NextWalk]_vars

\* =========================================================== maintenance
\* ------------------------------------------------- parts with child parts
NumRepairParts == 3   \* size of the pool the repaired store is drawn from

\* mainPartId: null
Null == 0

\* an identifier that no stored part has
DanglingId == NumRepairParts + NumParts + 1

Child(pn, name, desc, supplier, qty, ref) ==
  [partNumber |-> pn, partName |-> name, partDescription |-> desc,
   supplier |-> supplier, quantity |-> qty, mainPartId |-> ref]

\* a generated placeholder: its own code, no reference yet
Placeholder(qty) ==
  Child(<<"C", "P", "-", "a">>, <<"n">>, <<"d">>, <<"S">>, qty, Null)

\* a child that carries the data of part p and refers to ref
CopyOf(p, supplier, qty, ref) ==
  Child(p.partNumber, p.partName, p.partDescription, supplier, qty, ref)

ChildrenAt(i) ==
  CASE i % 4 = 2 -> <<Placeholder(2), CopyOf(PartAt(1), <<>>, 1, 1)>>
    [] i % 4 = 3 -> <<CopyOf(PartAt(1), <<"S">>, 3, DanglingId)>>
    [] OTHER     -> <<>>

\* the i-th part with its embedded child parts
RepairPartAt(i) == ("childParts" :> ChildrenAt(i)) @@ PartAt(i)

RepairPool == {RepairPartAt(i) : i \in 1..NumRepairParts}

\* --------------------------------------------------- replaceChildPartsData
\* .limit(100)
PoolLimit == 100

\* the samples find({}).limit(100) may return
Pools(parts) ==
  {S \in SUBSET parts : Cardinality(S) = Min(PoolLimit, Cardinality(parts))}

\* partNumberToIdMap.get(pn): undefined (no reference) without an entry
MapGet(pool, pn) ==
  IF \E p \in pool : p.partNumber = pn
  THEN (CHOOSE p \in pool : p.partNumber = pn).id
  ELSE Null

\* mutant: every part is fetched as a parent
HasChildrenAny(p) == TRUE

\* childParts: { $exists: true, $ne: [] }
HasChildren(p) == p.childParts /= <<>>

\* the test of lines 431-436
Differs(child, r) ==
  \/ child.partNumber /= r.partNumber
  \/ child.partName /= r.partName
  \/ child.partDescription /= r.partDescription
  \/ child.mainPartId = Null

\* mutant: the replacement takes the default quantity
NewChildDefaultQuantity(child, r, pool) ==
  IF Differs(child, r)
  THEN Child(r.partNumber, r.partName, r.partDescription, child.supplier, 1,
             IF MapGet(pool, r.partNumber) /= Null
             THEN MapGet(pool, r.partNumber) ELSE r.id)
  ELSE Child(child.partNumber, child.partName, child.partDescription,
             child.supplier, child.quantity,
             IF child.mainPartId /= Null THEN child.mainPartId
             ELSE MapGet(pool, child.partNumber))

\* lines 420-468: the replacement of one child given the pool part r that
\* was drawn for it
NewChild(child, r, pool) ==
  IF Differs(child, r)
  THEN Child(r.partNumber, r.partName, r.partDescription, child.supplier,
             child.quantity,
             IF MapGet(pool, r.partNumber) /= Null
             THEN MapGet(pool, r.partNumber) ELSE r.id)
  ELSE Child(child.partNumber, child.partName, child.partDescription,
             child.supplier, child.quantity,
             IF child.mainPartId /= Null THEN child.mainPartId
             ELSE MapGet(pool, child.partNumber))

\* needsUpdate after the loop over the children: line 472 sets it whatever
\* the comparison of lines 431-436 found
NeedsUpdate(children, picks) ==
  (\E i \in 1..Len(children) : Differs(children[i], picks[i])) \/ TRUE

\* the child positions of a set of parents
Positions(parents) ==
  {<<p.id, i>> : p \in parents, i \in 1..3} \cap
  UNION {{<<p.id, i>> : i \in 1..Len(p.childParts)} : p \in parents}

\* the elements of a set of identifiers in ascending order
RECURSIVE Ascending(_)
Ascending(ids) ==
  IF ids = {} THEN <<>>
  ELSE LET m == CHOOSE x \in ids : \A y \in ids : x <= y
       IN  <<m>> \o Ascending(ids \ {m})

PartById(parts, id) == CHOOSE p \in parts : p.id = id

\* mutant: the write also blanks the name of the part
WithChildrenRenamed(parts, id, children) ==
  {IF p.id = id THEN [p EXCEPT !.childParts = children, !.partName = <<>>]
   ELSE p : p \in parts}

\* the store after the child list of part id has been written
WithChildren(parts, id, children) ==
  {IF p.id = id THEN [p EXCEPT !.childParts = children] ELSE p : p \in parts}

NotFound == [status |-> 404, success |-> FALSE]

\* lines 377-480: fetch the pool and the parents, build every replacement
\* list and start the saves
RepairPrepare ==
  /\ job.pc = "idle"
  /\ \E pool \in Pools(store) :
       LET parents == {p \in store : HasChildren(p)}
           finds   == <<[op |-> "find", what |-> "pool"]>>
       IN  IF pool = {}
           THEN /\ job' = [kind |-> "repair", pc |-> "responded",
                           pool |-> pool, before |-> <<>>, picks |-> <<>>,
                           new |-> <<>>, pending |-> {}, settled |-> <<>>,
                           issued |-> 0, updatedCount |-> 0]
                /\ jobResp' = NotFound
                /\ jobOps' = finds
           ELSE IF parents = {}
           THEN /\ job' = [kind |-> "repair", pc |-> "responded",
                           pool |-> pool, before |-> <<>>, picks |-> <<>>,
                           new |-> <<>>, pending |-> {}, settled |-> <<>>,
                           issued |-> 0, updatedCount |-> 0]
                /\ jobResp' = [status |-> 200, success |-> TRUE,
                               updatedCount |-> 0]
                /\ jobOps' = Append(finds, [op |-> "find", what |-> "parents"])
           ELSE \E pick \in [Positions(parents) -> pool] :
                  LET before == [id \in {p.id : p \in parents} |->
                                   PartById(parents, id).childParts]
                      picks  == [id \in DOMAIN before |->
                                   [i \in 1..Len(before[id]) |-> pick[<<id, i>>]]]
                      new    == [id \in DOMAIN before |->
                                   [i \in 1..Len(before[id]) |->
                                      NewChild(before[id][i], picks[id][i], pool)]]
                      marked == {id \in DOMAIN before :
                                   NeedsUpdate(before[id], picks[id])}
                      order  == Ascending(marked)
                  IN  /\ job' = [kind |-> "repair", pc |-> "saving",
                                 pool |-> pool, before |-> before,
                                 picks |-> picks, new |-> new,
                                 pending |-> marked, settled |-> <<>>,
                                 issued |-> Cardinality(marked),
                                 updatedCount |-> Cardinality(marked)]
                      /\ jobResp' = NoResp
                      /\ jobOps' =
                           Append(finds, [op |-> "find", what |-> "parents"])
                           \o [k \in 1..Len(order) |->
                                 [op |-> "save", id |-> order[k],
                                  childParts |-> new[order[k]]]]
  /\ UNCHANGED <<store, hist, idSeq>>

\* one parentPart.save() has written its document
RepairSaveCommits ==
  /\ job.pc \in {"saving", "responded"} /\ job.kind = "repair"
  /\ \E id \in job.pending :
       /\ store' = WithChildren(store, id, job.new[id])
       /\ job' = [job EXCEPT !.pending = @ \ {id},
                             !.settled = Append(@, [id |-> id, ok |-> TRUE])]
  /\ UNCHANGED <<jobResp, jobOps, hist, idSeq>>

\* mutant: a failed save takes back the saves that were written
StoreAfterFailureRollback(parts, j) ==
  {IF p.id \in DOMAIN j.before
   THEN [p EXCEPT !.childParts = j.before[p.id]] ELSE p : p \in parts}

\* lines 490-496: the catch block answers and writes nothing
StoreAfterFailure(parts, j) == parts

\* one parentPart.save() has been rejected
RepairSaveFails ==
  /\ job.pc \in {"saving", "responded"} /\ job.kind = "repair"
  /\ \E id \in job.pending :
       /\ store' = StoreAfterFailure(store, job)
       /\ job' = [job EXCEPT !.pending = @ \ {id},
                             !.settled = Append(@, [id |-> id, ok |-> FALSE])]
  /\ UNCHANGED <<jobResp, jobOps, hist, idSeq>>

SomeFailed(j) == \E k \in 1..Len(j.settled) : ~j.settled[k].ok

\* lines 482-496: Promise.all has settled, with the first rejection or with
\* every save fulfilled
RepairRespond ==
  /\ job.pc = "saving" /\ job.kind = "repair"
  /\ SomeFailed(job) \/ job.pending = {}
  /\ jobResp' = IF SomeFailed(job) THEN ServerError
                ELSE [status |-> 200, success |-> TRUE,
                      updatedCount |-> job.updatedCount]
  /\ job' = [job EXCEPT !.pc = "responded"]
  /\ UNCHANGED <<store, jobOps, hist, idSeq>>

\* the request is over and nothing of it is in flight any more
JobReturn ==
  /\ job.pc = "responded" /\ job.pending = {}
  /\ hist' = Append(hist, [kind |-> job.kind, store |-> store,
                           issued |-> job.issued, status |-> jobResp.status])
  /\ job' = [pc |-> "idle"]
  /\ jobResp' = NoResp
  /\ jobOps' = <<>>
  /\ UNCHANGED <<store, idSeq>>

\* ----------------------------------------------------- generateRandomParts
BatchSize == 2        \* parts generated by one request (1000 in the code)
MaxGenChildren == 2   \* child parts of a generated part (0..10 in the code)

\* `P${alphanumeric(2)}-${int 1000..9999}`
GenPartNumber(alnum, n) == <<"P">> \o alnum \o <<"-">> \o NatToStr(n)

GenPartNumbers == {GenPartNumber(<<"C", "P">>, n) : n \in {1000, 9999}}

\* `CP-${alphanumeric(4)}`
GenChildNumber(alnum) == <<"C", "P", "-">> \o alnum

\* the i-th child part of a generated part: mainPartId is null
GenChildAt(i) ==
  Child(GenChildNumber(<<"1", "0", "0">> \o NatToStr(i % 10)), <<"n">>, <<"d">>,
        IF i % 2 = 1 THEN <<"S">> ELSE <<"T">>, 1 + (i % 10), Null)

\* the child list of a generated part; no list at all is stored as the empty
\* list
GenChildren(n) == [i \in 1..n |-> GenChildAt(i)]

\* the part generated with identifier id
GenPart(id, pn, n) ==
  [id          |-> id,
   createdAt   |-> (NumParts + 1) \div 2 + 1,
   partNumber  |-> pn,
   partName    |-> <<"A", "b">>,
   partDescription |-> <<"a", "B">>,
   category    |-> <<TagA>>,
   subCategory |-> <<>>,
   supplier    |-> <<TagB>>,
   alternativePartNumbers |-> <<>>,
   childParts  |-> GenChildren(n)]

\* mutant: no code is ever refused
TakenNever(parts, pn) == FALSE

\* the unique index on partNumber refuses the code pn
Taken(parts, pn) == \E p \in parts : p.partNumber = pn

\* the documents insertMany writes: those before the first one whose
\* partNumber is already taken (unique index), all of them when there is none
RECURSIVE Inserted(_, _)
Inserted(parts, docs) ==
  IF docs = <<>> THEN <<>>
  ELSE IF Taken(parts, Head(docs).partNumber) THEN <<>>
  ELSE <<Head(docs)>> \o Inserted(parts \cup {Head(docs)}, Tail(docs))

\* mutant: a child without a sibling of its code refers to the first part
GenLookupFallback(created, pn) ==
  IF \E k \in 1..Len(created) : created[k].partNumber = pn
  THEN created[CHOOSE k \in 1..Len(created) : created[k].partNumber = pn].id
  ELSE created[1].id

\* actualPartNumberToIdMap.get(pn) || null
GenLookup(created, pn) ==
  IF \E k \in 1..Len(created) : created[k].partNumber = pn
  THEN created[CHOOSE k \in 1..Len(created) : created[k].partNumber = pn].id
  ELSE Null

\* { ...childPart, mainPartId: mainPartId }
BackFilled(created, child) ==
  [child EXCEPT !.mainPartId = GenLookup(created, child.partNumber)]

\* lines 178-313: build the batch and insert it
GenInsert ==
  /\ job.pc = "idle"
  /\ \E nums \in [1..BatchSize -> GenPartNumbers],
        lens \in [1..BatchSize -> 0..MaxGenChildren] :
       LET docs == [k \in 1..BatchSize |-> GenPart(idSeq + k, nums[k], lens[k])]
           done == Inserted(store, docs)
           ins  == [op |-> "insertMany", docs |-> docs]
       IN  /\ store' = store \cup Range(done)
           /\ jobOps' = <<ins>>
           /\ IF Len(done) = Len(docs)
              THEN /\ job' = [kind |-> "generate", pc |-> "inserted",
                              created |-> done, before |-> <<>>, new |-> <<>>,
                              pending |-> {}, settled |-> <<>>, issued |-> 0]
                   /\ jobResp' = NoResp
              ELSE /\ job' = [kind |-> "generate", pc |-> "responded",
                              created |-> done, before |-> <<>>, new |-> <<>>,
                              pending |-> {}, settled |-> <<>>, issued |-> 0]
                   /\ jobResp' = ServerError
  /\ idSeq' = idSeq + BatchSize
  /\ UNCHANGED hist

\* lines 315-343: start one findByIdAndUpdate per created part with children
GenIssueUpdates ==
  /\ job.pc = "inserted"
  /\ LET parents == {k \in 1..Len(job.created) : HasChildren(job.created[k])}
         ids     == {job.created[k].id : k \in parents}
         before  == [id \in ids |-> PartById(Range(job.created), id).childParts]
         new     == [id \in ids |->
                       [i \in 1..Len(before[id]) |->
                          BackFilled(job.created, before[id][i])]]
         order   == Ascending(ids)
     IN  /\ job' = [job EXCEPT !.pc = "updating", !.before = before,
                               !.new = new, !.pending = ids,
                               !.issued = Cardinality(ids)]
         /\ jobOps' = jobOps \o
                        [k \in 1..Len(order) |->
                           [op |-> "findByIdAndUpdate", id |-> order[k],
                            childParts |-> new[order[k]]]]
  /\ UNCHANGED <<store, jobResp, hist, idSeq>>

\* one findByIdAndUpdate has been applied
GenUpdateCompletes ==
  /\ job.pc \in {"updating", "responded"} /\ job.kind = "generate"
  /\ \E id \in job.pending :
       /\ store' = WithChildren(store, id, job.new[id])
       /\ job' = [job EXCEPT !.pending = @ \ {id},
                             !.settled = Append(@, [id |-> id, ok |-> TRUE])]
  /\ UNCHANGED <<jobResp, jobOps, hist, idSeq>>

\* one findByIdAndUpdate has been rejected
GenUpdateFails ==
  /\ job.pc \in {"updating", "responded"} /\ job.kind = "generate"
  /\ \E id \in job.pending :
       job' = [job EXCEPT !.pending = @ \ {id},
                          !.settled = Append(@, [id |-> id, ok |-> FALSE])]
  /\ UNCHANGED <<store, jobResp, jobOps, hist, idSeq>>

\* lines 362-368: Promise.all has been rejected
GenRespondError ==
  /\ job.pc = "updating" /\ SomeFailed(job)
  /\ job' = [job EXCEPT !.pc = "responded"]
  /\ jobResp' = ServerError
  /\ UNCHANGED <<store, jobOps, hist, idSeq>>

\* mutant: the batch is fetched again without waiting for the updates
GenSettledAlways(j) == TRUE

\* lines 346-348: every update has been fulfilled
GenSettled(j) == j.pending = {}

\* slice(0, 10)
DataShown == 10

\* the documents slice(0, 10) may keep
Slices(parts) ==
  {S \in SUBSET parts : Cardinality(S) = Min(DataShown, Cardinality(parts))}

\* lines 350-361: fetch the batch again and answer
GenRefetch ==
  /\ job.pc = "updating" /\ ~SomeFailed(job) /\ GenSettled(job)
  /\ LET ids   == {job.created[k].id : k \in 1..Len(job.created)}
         found == {p \in store : p.id \in ids}
     IN  /\ \E data \in Slices(found) :
               jobResp' = [status |-> 201, success |-> TRUE,
                           count |-> Cardinality(found), data |-> data]
         /\ jobOps' = Append(jobOps, [op |-> "find", what |-> ids])
  /\ job' = [job EXCEPT !.pc = "responded"]
  /\ UNCHANGED <<store, hist, idSeq>>

\* ------------------------------------------------- getPartByChildReference
\* the length of the hexadecimal text of an identifier
IdLen == 24

HexChars ==
  <<"0", "1", "2", "3", "4", "5", "6", "7", "8", "9",
    "a", "b", "c", "d", "e", "f">>

UpperHex(c) ==
  CASE c = "a" -> "A" [] c = "b" -> "B" [] c = "c" -> "C"
    [] c = "d" -> "D" [] c = "e" -> "E" [] c = "f" -> "F"
    [] OTHER   -> c

IsHex(c) == \E i \in 1..16 : HexChars[i] = c \/ UpperHex(HexChars[i]) = c

HexVal(c) ==
  IF IsHex(c)
  THEN (CHOOSE i \in 1..16 : HexChars[i] = c \/ UpperHex(HexChars[i]) = c) - 1
  ELSE 0

RECURSIVE HexToNat(_)
HexToNat(t) ==
  IF t = <<>> THEN 0
  ELSE 16 * HexToNat(SubSeq(t, 1, Len(t) - 1)) + HexVal(t[Len(t)])

\* the identifiers of the parts are IdBase + 1, IdBase + 2, ...
IdBase == 10 * 16

\* the text of the identifier of part i
ObjectIdText(i) ==
  [k \in 1..IdLen |->
     CASE k = IdLen     -> HexChars[((IdBase + i) % 16) + 1]
       [] k = IdLen - 1 -> HexChars[(((IdBase + i) \div 16) % 16) + 1]
       [] OTHER         -> "0"]

UpperText(t) == [k \in 1..Len(t) |-> UpperHex(t[k])]

\* the part a well-formed text identifies
IdOf(t) == HexToNat(t) - IdBase

\* mutant: every text passes the validation
IsValidIdAny(t) == TRUE

\* mongoose.Types.ObjectId.isValid of a route parameter
IsValidId(t) == Len(t) = IdLen /\ \A k \in 1..Len(t) : IsHex(t[k])

BadRequest == [status |-> 400, success |-> FALSE]

\* the route parameters tried
LookupTexts ==
  {ObjectIdText(i) : i \in 1..NumRepairParts}
  \cup {UpperText(ObjectIdText(i)) : i \in 1..NumRepairParts}
  \cup {ObjectIdText(DanglingId)}
  \cup {<<"1">>, ObjectIdText(1) \o <<"0">>,
        [ObjectIdText(1) EXCEPT ![IdLen] = "g"]}

\* lines 546-559: validate the parameter and start the query
LookupStart ==
  /\ job.pc = "idle"
  /\ \E t \in LookupTexts :
       IF ~IsValidId(t)
       THEN /\ job' = [kind |-> "lookup", pc |-> "responded", text |-> t,
                       before |-> <<>>, new |-> <<>>, pending |-> {},
                       settled |-> <<>>, issued |-> 0]
            /\ jobResp' = BadRequest
            /\ jobOps' = <<>>
       ELSE /\ job' = [kind |-> "lookup", pc |-> "find", text |-> t,
                       before |-> <<>>, new |-> <<>>, pending |-> {},
                       settled |-> <<>>, issued |-> 0]
            /\ jobResp' = NoResp
            /\ jobOps' = <<[op |-> "findById", id |-> IdOf(t)]>>
  /\ UNCHANGED <<store, hist, idSeq>>

\* lines 559-574: the query has answered
LookupFind ==
  /\ job.pc = "find" /\ job.kind = "lookup"
  /\ LET found == {p \in store : p.id = jobOps[1].id}
     IN  jobResp' = IF found = {} THEN NotFound
                    ELSE [status |-> 200, success |-> TRUE,
                          data |-> CHOOSE p \in found : TRUE]
  /\ job' = [job EXCEPT !.pc = "responded"]
  /\ UNCHANGED <<store, jobOps, hist, idSeq>>

\* ---------------------------------------------------------- deleteAllParts
\* lines 588-596: delete every part and answer with their number
DeleteAll ==
  /\ job.pc = "idle"
  /\ store' = {}
  /\ job' = [kind |-> "delete", pc |-> "responded", before |-> <<>>,
             new |-> <<>>, pending |-> {}, settled |-> <<>>, issued |-> 0]
  /\ jobResp' = [status |-> 200, success |-> TRUE,
                 count |-> Cardinality(store)]
  /\ jobOps' = <<[op |-> "deleteMany"]>>
  /\ UNCHANGED <<hist, idSeq>>

\* ------------------------------------------------- rejected store calls
\* the request of kind k whose store call op was rejected: the catch block
\* has answered
Caught(k, op) ==
  [kind |-> k, pc |-> "responded", failed |-> op, before |-> <<>>,
   new |-> <<>>, pending |-> {}, settled |-> <<>>, issued |-> 0]

\* lines 142 and 163-169: countDocuments is rejected
GetAllPartsCountFails(q) ==
  /\ req.pc = "idle"
  /\ req' = [pc |-> "done", total |-> 0, failed |-> "countDocuments",
             query |-> q, page |-> PageOf(q), limit |-> LimitOf(q),
             skip |-> SkipOf(PageOf(q), LimitOf(q)), filter |-> BuildFilter(q)]
  /\ storeOps' = <<[op |-> "countDocuments", filter |-> BuildFilter(q)]>>
  /\ resp' = ServerError
  /\ UNCHANGED store

\* lines 146-149 and 163-169: find is rejected
GetAllPartsFindFails ==
  /\ req.pc = "find"
  /\ req' = [pc |-> "done", failed |-> "find"] @@ req
  /\ storeOps' = Append(storeOps,
       [op |-> "find", filter |-> req.filter, sort |-> SortSpec,
        skip |-> req.skip, limit |-> req.limit])
  /\ resp' = ServerError
  /\ UNCHANGED store

\* lines 378-383 and 490-496: the find of the pool is rejected
RepairPoolFails ==
  /\ job.pc = "idle"
  /\ job' = Caught("repair", "find")
  /\ jobOps' = <<[op |-> "find", what |-> "pool"]>>
  /\ jobResp' = ServerError
  /\ UNCHANGED <<store, hist, idSeq>>

\* lines 399-401 and 490-496: the find of the parents is rejected
RepairParentsFails ==
  /\ job.pc = "idle"
  /\ store /= {}
  /\ job' = Caught("repair", "find")
  /\ jobOps' = <<[op |-> "find", what |-> "pool"],
                 [op |-> "find", what |-> "parents"]>>
  /\ jobResp' = ServerError
  /\ UNCHANGED <<store, hist, idSeq>>

\* lines 313 and 362-368: insertMany is rejected before it has written
GenInsertFails ==
  /\ job.pc = "idle"
  /\ \E nums \in [1..BatchSize -> GenPartNumbers],
        lens \in [1..BatchSize -> 0..MaxGenChildren] :
       jobOps' = <<[op |-> "insertMany",
                    docs |-> [k \in 1..BatchSize |->
                                GenPart(idSeq + k, nums[k], lens[k])]]>>
  /\ job' = Caught("generate", "insertMany")
  /\ jobResp' = ServerError
  /\ idSeq' = idSeq + BatchSize
  /\ UNCHANGED <<store, hist>>

\* lines 351-353 and 362-368: the find that fetches the batch again is
\* rejected
GenRefetchFails ==
  /\ job.pc = "updating" /\ ~SomeFailed(job) /\ GenSettled(job)
  /\ job' = [pc |-> "responded", failed |-> "find"] @@ job
  /\ jobOps' = Append(jobOps, [op |-> "find", what |-> "batch"])
  /\ jobResp' = ServerError
  /\ UNCHANGED <<store, hist, idSeq>>

\* lines 560 and 575-580: findById is rejected
LookupFindFails ==
  /\ job.pc = "find" /\ job.kind = "lookup"
  /\ job' = [pc |-> "responded", failed |-> "findById"] @@ job
  /\ jobResp' = ServerError
  /\ UNCHANGED <<store, jobOps, hist, idSeq>>

\* lines 590 and 597-603: deleteMany is rejected
DeleteAllFails ==
  /\ job.pc = "idle"
  /\ job' = Caught("delete", "deleteMany")
  /\ jobOps' = <<[op |-> "deleteMany"]>>
  /\ jobResp' = ServerError
  /\ UNCHANGED <<store, hist, idSeq>>

\* ------------------------------------------------ maintenance behaviours
MaxRuns == 2   \* maintenance requests in one behaviour

InitJobs ==
  /\ store \in SUBSET RepairPool
  /\ req = [pc |-> "idle"]
  /\ resp = NoResp
  /\ storeOps = <<>>
  /\ walk = NoWalk
  /\ job = [pc |-> "idle"]
  /\ jobResp = NoResp
  /\ jobOps = <<>>
  /\ hist = <<>>
  /\ idSeq = DanglingId

RepairStart == Len(hist) < MaxRuns /\ RepairPrepare /\ UNCHANGED listVars
RepairCommit == RepairSaveCommits /\ UNCHANGED listVars
RepairFail == RepairSaveFails /\ UNCHANGED listVars
RepairAnswer == RepairRespond /\ UNCHANGED listVars
JobDone == JobReturn /\ UNCHANGED <<listVars>>

\* repairs one after the other, every save succeeding
NextRepair == RepairStart \/ RepairCommit \/ RepairAnswer \/ JobDone

SpecRepair == InitJobs /\ [][NextRepair]_vars

RepairOnce == hist = <<>> /\ RepairPrepare /\ UNCHANGED listVars
GenerateOnce == hist = <<>> /\ GenInsert /\ UNCHANGED listVars
GenerateUpdates == GenIssueUpdates /\ UNCHANGED listVars
GenerateCommit == GenUpdateCompletes /\ UNCHANGED listVars
GenerateFail == GenUpdateFails /\ UNCHANGED listVars
GenerateError == GenRespondError /\ UNCHANGED listVars
GenerateAnswer == GenRefetch /\ UNCHANGED listVars

LookupOnce == hist = <<>> /\ LookupStart /\ UNCHANGED listVars
LookupAnswer == LookupFind /\ UNCHANGED listVars

\* one request, a repair, a generation or a reverse lookup, whose writes
\* succeed or fail one by one
NextJobs ==
  \/ RepairOnce \/ RepairCommit \/ RepairFail \/ RepairAnswer
  \/ GenerateOnce \/ GenerateUpdates \/ GenerateCommit \/ GenerateFail
  \/ GenerateError \/ GenerateAnswer
  \/ LookupOnce \/ LookupAnswer
  \/ JobDone

SpecJobs == InitJobs /\ [][NextJobs]_vars

\* the child positions a repair of the stored parts would rewrite
StoredPositions == Cardinality(Positions({p \in store : HasChildren(p)}))

\* once every code of GenPartNumbers is taken a further generation inserts
\* nothing: sequences of that many requests are followed
SeqOpen == Len(hist) < Cardinality(GenPartNumbers)

SeqGenerate == SeqOpen /\ GenInsert /\ UNCHANGED listVars
SeqDelete == SeqOpen /\ DeleteAll /\ UNCHANGED listVars
SeqRepair ==
  /\ SeqOpen
  /\ Cardinality(store) <= NumRepairParts
  /\ StoredPositions <= NumRepairParts
  /\ RepairPrepare
  /\ UNCHANGED listVars

\* generations, repairs and deletions one after the other; a repair is
\* followed on the stores with at most NumRepairParts parts and child
\* positions
NextSequence ==
  \/ SeqGenerate \/ GenerateUpdates \/ GenerateCommit \/ GenerateAnswer
  \/ SeqRepair \/ RepairCommit \/ RepairAnswer
  \/ SeqDelete
  \/ JobDone

SpecSequence == InitJobs /\ [][NextSequence]_vars

ConcurrentList ==
  /\ \E q \in WalkQueries : GetAllPartsCount(q)
  /\ UNCHANGED <<walk, jobVars>>
DeleteOnce == hist = <<>> /\ DeleteAll /\ UNCHANGED listVars

\* listings while one generation or one deletion runs: the store calls of
\* the two requests interleave
NextConcurrent ==
  \/ ConcurrentList \/ ListFind \/ ListReturn
  \/ GenerateOnce \/ GenerateUpdates \/ GenerateCommit \/ GenerateAnswer
  \/ DeleteOnce
  \/ JobDone

SpecConcurrent == InitJobs /\ [][NextConcurrent]_vars

\* no request is in flight and none has been served
Quiet == req.pc = "idle" /\ job.pc = "idle" /\ hist = <<>>

FaultsList ==
  /\ Quiet
  /\ \E q \in PagingQueries : GetAllPartsCount(q)
  /\ UNCHANGED <<walk, jobVars>>
FaultsCountFails ==
  /\ Quiet
  /\ \E q \in PagingQueries : GetAllPartsCountFails(q)
  /\ UNCHANGED <<walk, jobVars>>
FaultsFindFails == GetAllPartsFindFails /\ UNCHANGED <<walk, jobVars>>
FaultsRepair == Quiet /\ RepairPrepare /\ UNCHANGED listVars
FaultsPoolFails == Quiet /\ RepairPoolFails /\ UNCHANGED listVars
FaultsParentsFails == Quiet /\ RepairParentsFails /\ UNCHANGED listVars
FaultsGenerate == Quiet /\ GenInsert /\ UNCHANGED listVars
FaultsInsertFails == Quiet /\ GenInsertFails /\ UNCHANGED listVars
FaultsRefetchFails == GenRefetchFails /\ UNCHANGED listVars
FaultsLookup == Quiet /\ LookupStart /\ UNCHANGED listVars
FaultsFindByIdFails == LookupFindFails /\ UNCHANGED listVars
FaultsDelete == Quiet /\ DeleteAll /\ UNCHANGED listVars
FaultsDeleteFails == Quiet /\ DeleteAllFails /\ UNCHANGED listVars

\* one request of any endpoint at a time, each store call of which answers
\* or is rejected
NextFaults ==
  \/ FaultsList \/ FaultsCountFails \/ ListFind \/ FaultsFindFails
  \/ ListReturn
  \/ FaultsRepair \/ FaultsPoolFails \/ FaultsParentsFails
  \/ RepairCommit \/ RepairFail \/ RepairAnswer
  \/ FaultsGenerate \/ FaultsInsertFails \/ GenerateUpdates
  \/ GenerateCommit \/ GenerateFail \/ GenerateError \/ GenerateAnswer
  \/ FaultsRefetchFails
  \/ FaultsLookup \/ LookupAnswer \/ FaultsFindByIdFails
  \/ FaultsDelete \/ FaultsDeleteFails
  \/ JobDone

SpecFaults == InitJobs /\ [][NextFaults]_vars

\* ======================================================== properties
\* the request text of the listing in flight
Q == req.query

Started == req.pc \in {"find", "done"}

Answered == req.pc = "done" /\ resp.status = 200

\* the find calls the request has issued
FindOps == {storeOps[i] : i \in {j \in 1..Len(storeOps) : storeOps[j].op = "find"}}

\* the stored records the compiled predicate selects
Matching == {p \in store : Matches(p, req.filter)}

HasText(k, text) == k \in DOMAIN Q /\ Q[k] = text

\* C1 as stated: for every page p and size s taken from the request the
\* store is queried with skip = (p-1)*s and limit = s, and the number of
\* records returned never exceeds s.
C1_AsStated ==
  Started =>
    /\ \A f \in FindOps :
         f.skip = (req.page - 1) * req.limit /\ f.limit = req.limit
    /\ Answered => resp.count <= req.limit

\* C1 amended: for every page p and every size s >= 1 taken from the
\* request the store is queried with skip = (p-1)*s and limit = s, and the
\* number of records returned (count, the length of data) never exceeds s;
\* for a size below 1 the query is still issued with skip = (p-1)*s and
\* limit = s.
C1_SkipLimitWindow ==
  Started =>
    /\ \A f \in FindOps :
         /\ f.skip = (req.page - 1) * req.limit /\ f.limit = req.limit
         /\ \A n \in 1..MaxPage, m \in 1..MaxLimit :
              HasText("page", IntToStr(n)) /\ HasText("limit", IntToStr(m))
                => f.skip = (n - 1) * m /\ f.limit = m
    /\ Answered /\ req.limit >= 1 =>
         resp.count <= req.limit /\ resp.count = Len(resp.data)

C1_Witness ==
  /\ Answered /\ HasText("page", IntToStr(2)) /\ HasText("limit", IntToStr(2))
  /\ resp.count = 2

\* C2: hasMore is true iff skip + returned < total; it is false on the
\* final page and on every page beyond it (the window reaches or passes
\* the end of the matching records), and true when matching records remain
\* after the window.
C2_HasMore ==
  Answered =>
    /\ resp.hasMore <=> (req.skip + resp.count < resp.total)
    /\ \A f \in FindOps :
         /\ f.skip + Abs(f.limit) >= Cardinality(Matching) => ~resp.hasMore
         /\ f.skip + Abs(f.limit) < Cardinality(Matching) => resp.hasMore

C2_Witness ==
  /\ Answered /\ req.page >= 2 /\ resp.count >= 1 /\ ~resp.hasMore
  /\ req.skip + resp.count = Cardinality(Matching)

\* C4 as stated: the page used is 1 whenever the page parameter is absent,
\* non-numeric or less than 1, the size used is 50 when limit is absent,
\* and the computed skip is never negative.
C4_AsStated ==
  Started =>
    /\ ("page" \notin DOMAIN Q
          \/ HasText("page", <<"x">>) \/ HasText("page", <<>>)
          \/ \E n \in (-MaxPage)..0 : HasText("page", IntToStr(n)))
         => req.page = 1
    /\ "limit" \notin DOMAIN Q => req.limit = 50
    /\ req.skip >= 0

\* C5: a request for a page beyond the last page (its window starts at or
\* after the end of the matching records) is answered with success, empty
\* data, hasMore = false and totalPages = ceil(total / size).
C5_BeyondLastPage ==
  LET m == Cardinality(Matching)
      t == resp.totalPages
      s == req.limit
  IN  req.pc = "done" /\ ~CastFails(req.filter) /\ req.skip >= m =>
        /\ resp.status = 200 /\ resp.success
        /\ resp.data = <<>> /\ resp.count = 0
        /\ ~resp.hasMore
        /\ resp.total = m
        /\ s >= 1 => t * s >= m /\ (t - 1) * s < m
        /\ s <= -1 => t * s <= m /\ (t - 1) * s > m

C5_Witness ==
  /\ Answered /\ req.page >= 2 /\ req.limit = 2
  /\ Cardinality(Matching) = 3 /\ req.skip >= 4
  /\ resp.data = <<>> /\ resp.totalPages = 2

\* C3 (SpecWalk): over an unchanged store, with a fixed predicate and a
\* fixed size >= 1, the pages 1..totalPages together hold every matching
\* record exactly once, in creation-timestamp-descending order with the
\* identifier descending among equal timestamps.
C3_PagesPartition ==
  walk.on /\ walk.done =>
    /\ walk.ok
    /\ \A i, j \in 1..Len(walk.seen) : i /= j => walk.seen[i] /= walk.seen[j]
    /\ Range(walk.seen) =
         {p.id : p \in {x \in store : Matches(x, BuildFilter(walk.base))}}
    /\ \A i, j \in 1..Len(walk.seen) : i < j =>
         \E a, b \in store :
           /\ a.id = walk.seen[i] /\ b.id = walk.seen[j]
           /\ a.createdAt > b.createdAt
                \/ (a.createdAt = b.createdAt /\ a.id > b.id)

C3_Witness ==
  /\ walk.on /\ walk.done /\ walk.next >= 3
  /\ HasText("limit", IntToStr(1))
  /\ \E a, b \in store :
       /\ a.id /= b.id /\ a.createdAt = b.createdAt
       /\ {a.id, b.id} \subseteq Range(walk.seen)

\* ---------------------------------------------------- the filter compiler
SevenFields ==
  {"partNumber", "partName", "partDescription", "category", "subCategory",
   "supplier", "alternativePartNumbers"}

TagParams == {"category", "subCategory", "supplier"}

\* the predicate key each field-specific parameter constrains
ParamKey ==
  [partNumber |-> "partNumber", partName |-> "partName",
   description |-> "partDescription",
   alternativePartNumber |-> "alternativePartNumbers",
   category |-> "category", subCategory |-> "subCategory",
   supplier |-> "supplier"]

BothDates == Truthy(Q, "startDate") /\ Truthy(Q, "endDate")

\* the request ended in an error for a reason of its own: a date bound
\* that is no date, or a negative skip
OtherError == CastFails(req.filter) \/ req.skip < 0

NoErrorOfItsOwn == req.pc = "done" /\ resp.status = 500 => OtherError

\* the window of the response holds every selected record
WholeResult == Answered /\ req.skip = 0 /\ req.limit >= Cardinality(store)

DataIds == {resp.data[i].id : i \in 1..Len(resp.data)}

\* c is the case-insensitive search for term over the seven fields
IsOrOverSeven(c, term) ==
  /\ c.op = "$or"
  /\ Len(c.alts) = 7
  /\ {c.alts[i].field : i \in 1..Len(c.alts)} = SevenFields
  /\ \A i \in 1..Len(c.alts) :
       c.alts[i].cond = [op |-> "$regex", pattern |-> term, options |-> "i"]

\* C6 as stated: with a globalSearch term the predicate is exclusively the
\* OR over the seven fields; every other filter parameter of the request
\* contributes nothing.
C6_AsStated ==
  Started /\ Truthy(Q, "globalSearch") =>
    /\ DOMAIN req.filter = {"$or"}
    /\ IsOrOverSeven(req.filter["$or"], Q["globalSearch"])

\* C6 amended: with a globalSearch term the predicate is the OR over the
\* seven fields and every field-specific filter parameter (partNumber,
\* partName, description, alternativePartNumber, category, subCategory,
\* supplier) contributes nothing; a startDate/endDate pair still adds its
\* creation-timestamp constraint to the predicate.
C6_GlobalSearchExclusive ==
  Started /\ Truthy(Q, "globalSearch") =>
    /\ "$or" \in DOMAIN req.filter
    /\ IsOrOverSeven(req.filter["$or"], Q["globalSearch"])
    /\ DOMAIN req.filter \ {"$or"} = IF BothDates THEN {"createdAt"} ELSE {}
    /\ WholeResult /\ ~BothDates =>
         DataIds = {p.id : p \in {x \in store :
                      \E f \in SevenFields :
                        FieldRegex(x, f, Regex(Q["globalSearch"]))}}

C6_Witness ==
  /\ Answered /\ Truthy(Q, "globalSearch") /\ Truthy(Q, "partNumber")
  /\ \E i \in 1..Len(resp.data) :
       ~FieldRegex(resp.data[i], "partNumber", Regex(Q["partNumber"]))

\* C7: without globalSearch, a category, subCategory or supplier parameter
\* that parses to an array of tags compiles to contains-all (a record is
\* returned only if its tag-set holds every listed tag), and a single
\* token compiles to contains-that-tag (a record matches iff its tag-set
\* holds the token).
C7_TagFilters ==
  Started /\ ~Truthy(Q, "globalSearch") =>
    /\ \A f \in TagParams : Truthy(Q, f) =>
         LET raw == Q[f]
             p   == JSONParse(raw)
         IN  /\ StartsWith(raw, "[") /\ p.ok =>
                  /\ req.filter[f] = [op |-> "$all", vals |-> p.arr]
                  /\ Answered => \A i \in 1..Len(resp.data) :
                       Range(p.arr) \subseteq Range(resp.data[i][f])
             /\ ~StartsWith(raw, "[") =>
                  /\ req.filter[f] = [op |-> "$in", vals |-> <<raw>>]
                  /\ Answered => \A i \in 1..Len(resp.data) :
                       raw \in Range(resp.data[i][f])
                  /\ WholeResult /\ DOMAIN req.filter = {f} =>
                       DataIds = {x.id : x \in {y \in store : raw \in Range(y[f])}}
    /\ Answered /\ HasText("category", ArrAB) =>
         \A i \in 1..Len(resp.data) :
           {TagA, TagB} \subseteq Range(resp.data[i].category)

C7_Witness ==
  /\ Answered /\ HasText("category", ArrAB) /\ resp.count >= 1
  /\ \E x \in store : TagA \in Range(x.category) /\ TagB \notin Range(x.category)

\* C8: a set-valued parameter that starts with "[" and is no JSON array
\* compiles to the single-token predicate on the raw text, and the request
\* does not end in an error because of it.
C8_MalformedFallback ==
  Started /\ ~Truthy(Q, "globalSearch") =>
    \A f \in TagParams :
      Truthy(Q, f) /\ StartsWith(Q[f], "[") /\ ~JSONParse(Q[f]).ok =>
        /\ req.filter[f] = [op |-> "$in", vals |-> <<Q[f]>>]
        /\ NoErrorOfItsOwn
        /\ Answered => \A i \in 1..Len(resp.data) :
             Q[f] \in Range(resp.data[i][f])
        /\ WholeResult /\ DOMAIN req.filter = {f} =>
             DataIds = {x.id : x \in {y \in store : Q[f] \in Range(y[f])}}

C8_Witness ==
  /\ Answered /\ HasText("category", TagBr) /\ resp.count >= 1
  /\ resp.count < Cardinality(store)

\* C9: the predicate constrains the creation timestamp iff both startDate
\* and endDate are present, to the closed interval [startDate, endDate];
\* a request with one bound alone compiles to the predicate of the request
\* without it and does not end in an error because of it.
C9_DateRange ==
  Started =>
    /\ "createdAt" \in DOMAIN req.filter <=> BothDates
    /\ \A d1, d2 \in 1..9 :
         HasText("startDate", DateStr(d1)) /\ HasText("endDate", DateStr(d2)) =>
           /\ req.filter["createdAt"].gte = [valid |-> TRUE, t |-> d1]
           /\ req.filter["createdAt"].lte = [valid |-> TRUE, t |-> d2]
           /\ Answered => \A i \in 1..Len(resp.data) :
                d1 <= resp.data[i].createdAt /\ resp.data[i].createdAt <= d2
           /\ WholeResult /\ DOMAIN req.filter = {"createdAt"} =>
                DataIds = {x.id : x \in {y \in store :
                             d1 <= y.createdAt /\ y.createdAt <= d2}}
    /\ Truthy(Q, "startDate") /= Truthy(Q, "endDate") =>
         /\ req.filter =
              BuildFilter([k \in DOMAIN Q \ {"startDate", "endDate"} |-> Q[k]])
         /\ req.pc = "done" /\ resp.status = 500 => req.skip < 0

C9_Witness ==
  /\ Answered
  /\ HasText("startDate", DateStr(2)) /\ HasText("endDate", DateStr(2))
  /\ resp.count >= 1
  /\ \E x \in store : x.createdAt = 1

\* C10: without globalSearch the predicate is the conjunction of exactly
\* one constraint per recognized filter parameter that is present (with a
\* non-empty value) and nothing else; a parameter with an unrecognized
\* name changes neither the predicate nor the outcome.
C10_Conjunction ==
  Started /\ ~Truthy(Q, "globalSearch") =>
    LET present == {k \in DOMAIN ParamKey : Truthy(Q, k)}
        alone(k) == BuildFilter(k :> Q[k])
    IN  /\ DOMAIN req.filter =
             {ParamKey[k] : k \in present}
               \cup (IF BothDates THEN {"createdAt"} ELSE {})
        /\ Cardinality(DOMAIN req.filter) =
             Cardinality(present) + (IF BothDates THEN 1 ELSE 0)
        /\ \A k \in present :
             /\ DOMAIN alone(k) = {ParamKey[k]}
             /\ req.filter[ParamKey[k]] = alone(k)[ParamKey[k]]
        /\ req.filter = BuildFilter([k \in DOMAIN Q \ {"foo"} |-> Q[k]])
        /\ "foo" \in DOMAIN Q => NoErrorOfItsOwn
        /\ WholeResult /\ ~BothDates =>
             DataIds = {x.id : x \in {y \in store :
                          \A k \in present : Matches(y, alone(k))}}

C10_Witness ==
  /\ Answered /\ "foo" \in DOMAIN Q
  /\ Truthy(Q, "description") /\ Truthy(Q, "category")
  /\ resp.count >= 1 /\ resp.count < Cardinality(store)

\* C11 as stated: with no filter parameter present the predicate is empty,
\* matches every record and filters is "None"; filters is "None" only in
\* that case, otherwise it echoes the compiled predicate.
FilterParamPresent ==
  \E k \in (DOMAIN ParamKey) \cup {"globalSearch", "startDate", "endDate"} :
    Truthy(Q, k)

C11_AsStated ==
  Answered =>
    /\ ~FilterParamPresent =>
         /\ DOMAIN req.filter = {}
         /\ resp.total = Cardinality(store)
         /\ resp.filters = NoneEcho
    /\ resp.filters = NoneEcho => ~FilterParamPresent
    /\ resp.filters /= NoneEcho => resp.filters = req.filter

\* C11 amended: with no filter parameter present the predicate is empty,
\* matches every record (total = number of stored parts) and filters is
\* "None"; filters is "None" exactly when the compiled predicate is empty,
\* which is also the case when startDate or endDate is present without the
\* other and no other filter parameter is; otherwise filters echoes the
\* compiled predicate.
C11_FiltersEcho ==
  Answered =>
    /\ ~FilterParamPresent =>
         /\ DOMAIN req.filter = {}
         /\ resp.total = Cardinality(store)
         /\ resp.filters = NoneEcho
    /\ resp.filters = NoneEcho <=>
         /\ ~Truthy(Q, "globalSearch")
         /\ \A k \in DOMAIN ParamKey : ~Truthy(Q, k)
         /\ ~BothDates
    /\ resp.filters = NoneEcho => resp.total = Cardinality(store)
    /\ resp.filters /= NoneEcho =>
         resp.filters = req.filter /\ DOMAIN resp.filters /= {}

C11_Witness ==
  /\ Answered /\ ~FilterParamPresent /\ "foo" \in DOMAIN Q
  /\ resp.filters = NoneEcho /\ resp.total >= 2

\* ---------------------------------------------------------------- C12
RepairRuns == {k \in 1..Len(hist) : hist[k].kind = "repair"}

\* the references the children of the stored parts hold, by part and position
ChildRefs(parts) ==
  [id \in {p.id : p \in parts} |->
     [i \in 1..Len(PartById(parts, id).childParts) |->
        PartById(parts, id).childParts[i].mainPartId]]

\* C12: when reference repair has run twice in a row with nothing else in
\* between, the second run has issued no save and the children's references
\* after it are those after the first run.
C12_Idempotent ==
  (Len(hist) >= 2 /\ hist[1].kind = "repair" /\ hist[2].kind = "repair"
     /\ hist[1].status = 200 /\ hist[2].status = 200)
  => /\ hist[2].issued = 0
     /\ ChildRefs(hist[2].store) = ChildRefs(hist[1].store)

\* ---------------------------------------------------------------- C13
Repairing == job.pc /= "idle" /\ job.kind = "repair"

\* the parents whose save has been written
Saved == {job.settled[k].id : k \in {n \in 1..Len(job.settled) : job.settled[n].ok}}

\* the parents whose save has been rejected
Rejected ==
  {job.settled[k].id : k \in {n \in 1..Len(job.settled) : ~job.settled[n].ok}}

StoredChildren(id) == PartById(store, id).childParts

\* C13: at every child position of every parent the repair rewrites, the new
\* entry (as built, and as stored once the save is written) has the quantity
\* and the supplier of the entry it replaces, whatever part was drawn and
\* whichever branch built it.
C13_QuantitySupplierKept ==
  Repairing =>
    \A id \in DOMAIN job.before :
      /\ Len(job.new[id]) = Len(job.before[id])
      /\ \A i \in 1..Len(job.before[id]) :
           /\ job.new[id][i].quantity = job.before[id][i].quantity
           /\ job.new[id][i].supplier = job.before[id][i].supplier
           /\ id \in Saved =>
                /\ StoredChildren(id)[i].quantity = job.before[id][i].quantity
                /\ StoredChildren(id)[i].supplier = job.before[id][i].supplier

\* a written parent with one child rebuilt by each branch, neither quantity
\* being the default
C13_Witness ==
  /\ Repairing
  /\ \E id \in Saved :
       \E i, j \in 1..Len(job.before[id]) :
         /\ Differs(job.before[id][i], job.picks[id][i])
         /\ ~Differs(job.before[id][j], job.picks[id][j])
         /\ job.before[id][i].quantity = 2
         /\ job.before[id][i].supplier /= job.before[id][j].supplier
         /\ job.new[id][i].partNumber /= job.before[id][i].partNumber

\* ---------------------------------------------------------------- C15
\* C15: when one or more saves of a repair have failed, the answer is still
\* a success whose updatedCount is the number of parents whose save was
\* written.
C15_AsStated ==
  (Repairing /\ job.pc = "responded" /\ job.pending = {} /\ SomeFailed(job))
  => /\ jobResp.status = 200
     /\ jobResp.success
     /\ jobResp.updatedCount = Cardinality(Saved)

\* ---------------------------------------------------------------- C16
SaveOps == {k \in 1..Len(jobOps) : jobOps[k].op = "save"}

\* C16: the saves of a repair are all started before any is awaited, one per
\* parent; a save that was written stays written whatever happens to the
\* others and whenever it completes, a parent whose save failed keeps the
\* child list it had, and no save is started a second time.
C16_NoRollbackNoRetry ==
  Repairing =>
    /\ \A id \in Saved : StoredChildren(id) = job.new[id]
    /\ \A id \in Rejected : StoredChildren(id) = job.before[id]
    /\ Saved \cap Rejected = {}
    /\ Cardinality(Saved) + Cardinality(Rejected) = Len(job.settled)
    /\ job.pending \cup Saved \cup Rejected = DOMAIN job.before
    /\ Cardinality(SaveOps) = Cardinality(DOMAIN job.before)
    /\ \A k, n \in SaveOps : jobOps[k].id = jobOps[n].id => k = n

\* a save written before another one fails, and one written after the failure
\* has been answered
C16_Witness ==
  /\ Repairing /\ Len(job.settled) = 2
  /\ \/ job.settled[1].ok /\ ~job.settled[2].ok
        /\ job.new[job.settled[1].id] /= job.before[job.settled[1].id]
     \/ ~job.settled[1].ok /\ job.settled[2].ok /\ jobResp = ServerError
        /\ job.new[job.settled[2].id] /= job.before[job.settled[2].id]
  /\ \A id \in Saved : StoredChildren(id) /= job.before[id]

\* ---------------------------------------------------------------- C17
\* C17: after a repair that succeeded with a non-empty pool, every child of
\* every processed parent carries the code, name and description of one pool
\* part and refers to that part.
C17_AsStated ==
  (Repairing /\ job.pc = "responded" /\ jobResp.status = 200
     /\ job.pending = {} /\ job.pool /= {})
  => \A id \in DOMAIN job.before :
       \A i \in 1..Len(StoredChildren(id)) :
         \E r \in job.pool :
           /\ StoredChildren(id)[i].partNumber = r.partNumber
           /\ StoredChildren(id)[i].partName = r.partName
           /\ StoredChildren(id)[i].partDescription = r.partDescription
           /\ StoredChildren(id)[i].mainPartId = r.id

\* ---------------------------------------------------------------- C14
Generating == job.pc /= "idle" /\ job.kind = "generate"

WriteOps ==
  {k \in 1..Len(jobOps) : jobOps[k].op \in {"save", "findByIdAndUpdate"}}

\* no parent marked, and no save or update started, without children
OnlyParentsWithChildren ==
  job.pc /= "idle" =>
    /\ \A id \in DOMAIN job.before : job.before[id] /= <<>>
    /\ \A k \in WriteOps :
         /\ jobOps[k].id \in DOMAIN job.before
         /\ jobOps[k].id \in {p.id : p \in store}
         /\ job.before[jobOps[k].id] /= <<>>
    /\ \A p \in store :
         p.childParts = <<>> => p.id \notin job.pending \cup Saved \cup Rejected

\* a stored part without children is the same after the step
ChildlessKept == \A p \in store : p.childParts = <<>> => p \in store'

\* C14: a repair or a generation never marks a parent that has no child
\* entries, starts no save or update for it, and leaves its stored record as
\* it is.
C14_ChildlessUntouched == [] OnlyParentsWithChildren /\ [][ChildlessKept]_vars

\* a repair that has written its saves beside a part without children
C14_Witness ==
  /\ Repairing /\ job.issued > 0 /\ job.pending = {} /\ Saved /= {}
  /\ \E p \in store : p.childParts = <<>> /\ p \in job.pool

\* ---------------------------------------------------------------- C18
CreatedIds == {job.created[k].id : k \in 1..Len(job.created)}

\* C18: after a generation that succeeded, every child of every generated
\* parent refers to a part of the batch; a reference is null only when the
\* batch is empty.
C18_AsStated ==
  (Generating /\ job.pc = "responded" /\ jobResp.status = 201)
  => \A id \in CreatedIds :
       \A i \in 1..Len(StoredChildren(id)) :
         \/ StoredChildren(id)[i].mainPartId \in CreatedIds
         \/ StoredChildren(id)[i].mainPartId = Null /\ CreatedIds = {}

\* ---------------------------------------------------------------- C19
\* the created parts that have the code pn
Siblings(pn) == {k \in 1..Len(job.created) : job.created[k].partNumber = pn}

\* C19: once the update of a generated parent is applied, each of its
\* children refers to the created part of the child's own partNumber when
\* there is one and to nothing otherwise, and its code, name, description,
\* supplier and quantity are those it was inserted with.
C19_BackFill ==
  Generating =>
    \A id \in Saved :
      /\ Len(StoredChildren(id)) = Len(job.before[id])
      /\ \A i \in 1..Len(job.before[id]) :
           LET c == StoredChildren(id)[i]
               b == job.before[id][i]
           IN  /\ Siblings(b.partNumber) /= {} =>
                    \E k \in Siblings(b.partNumber) :
                      c.mainPartId = job.created[k].id
               /\ Siblings(b.partNumber) = {} => c.mainPartId = Null
               /\ c.partNumber = b.partNumber
               /\ c.partName = b.partName
               /\ c.partDescription = b.partDescription
               /\ c.supplier = b.supplier
               /\ c.quantity = b.quantity

\* the update pass is over and has rewritten a parent with two children
C19_Witness ==
  /\ Generating /\ job.pc = "updating" /\ job.pending = {}
  /\ \E id \in Saved : Len(StoredChildren(id)) = 2

\* ---------------------------------------------------------------- C20
ChildRefsOf(children) == {children[i].mainPartId : i \in 1..Len(children)}

\* C20: a generation inserts every child with a null reference, starts its
\* updates only after the insert, writes only references that are null or
\* identify an inserted part, and answers 201 only when every update has
\* been applied and the batch has been fetched again.
C20_TwoPhase ==
  Generating =>
    /\ jobOps[1].op = "insertMany"
    /\ \A k \in 1..Len(jobOps[1].docs) :
         ChildRefsOf(jobOps[1].docs[k].childParts) \subseteq {Null}
    /\ \A k \in WriteOps :
         /\ k > 1
         /\ jobOps[k].id \in CreatedIds
         /\ ChildRefsOf(jobOps[k].childParts) \subseteq {Null} \cup CreatedIds
    /\ \A id \in CreatedIds :
         ChildRefsOf(StoredChildren(id)) \subseteq {Null} \cup CreatedIds
    /\ jobResp.status = 201 =>
         /\ job.pending = {} /\ Rejected = {}
         /\ Cardinality(Saved) = Cardinality(WriteOps)
         /\ jobOps[Len(jobOps)].op = "find"
         /\ \A id \in Saved : StoredChildren(id) = job.new[id]

\* a generation answered after both of its updates
C20_Witness ==
  /\ Generating /\ jobResp.status = 201
  /\ Cardinality(WriteOps) = 2 /\ Cardinality(Saved) = 2

\* ---------------------------------------------------------------- C21
LookingUp == job.pc /= "idle" /\ job.kind = "lookup"

\* 24 hexadecimal digits
WellFormed(t) ==
  /\ Len(t) = 24
  /\ \A k \in 1..Len(t) :
       t[k] \in {"0", "1", "2", "3", "4", "5", "6", "7", "8", "9",
                 "a", "b", "c", "d", "e", "f", "A", "B", "C", "D", "E", "F"}

\* the stored parts whose identifier is written t, in either case
Identified(t) ==
  {p \in store : ObjectIdText(p.id) = t \/ UpperText(ObjectIdText(p.id)) = t}

\* C21: a reverse lookup with a malformed identifier is answered 400 without
\* a store query; with a well-formed identifier of no part, 404 without
\* data; otherwise 200 with exactly the part of that identifier. The store
\* is as it was.
C21_ReverseLookup ==
  LookingUp =>
    /\ store \in SUBSET RepairPool
    /\ ~WellFormed(job.text) => jobOps = <<>> /\ jobResp = BadRequest
    /\ WellFormed(job.text) => Len(jobOps) = 1 /\ jobOps[1].op = "findById"
    /\ (WellFormed(job.text) /\ job.pc = "responded") =>
         IF Identified(job.text) = {}
         THEN jobResp.status = 404 /\ "data" \notin DOMAIN jobResp
         ELSE /\ jobResp.status = 200
              /\ {jobResp.data} = Identified(job.text)

\* a part found by the upper-case text of its identifier
C21_Witness ==
  /\ LookingUp /\ jobResp.status = 200
  /\ job.text = UpperText(ObjectIdText(jobResp.data.id))
  /\ job.text /= ObjectIdText(jobResp.data.id)
  /\ Cardinality(store) >= 2

\* ---------------------------------------------------------------- C22
\* a store call of the request in the maintenance slot has been rejected
FaultedJob ==
  /\ job.pc /= "idle"
  /\ \/ "failed" \in DOMAIN job
     \/ SomeFailed(job)
     \/ job.kind = "generate" /\ Len(job.created) < Len(jobOps[1].docs)

\* a store call of the listing in flight has been rejected
FaultedList ==
  /\ req.pc /= "idle"
  /\ \/ "failed" \in DOMAIN req
     \/ CastFails(req.filter)
     \/ req.pc = "done" /\ req.skip < 0

\* the answer to a request with a rejected store call is the server error,
\* and the rejected call is the last one the request has started (saves and
\* updates, started together, each once)
CaughtAtBoundary ==
  /\ (FaultedJob /\ job.pc = "responded") =>
       jobResp.status = 500 /\ jobResp.success = FALSE
  /\ (FaultedJob /\ job.pc /= "responded") => jobResp = NoResp
  /\ (job.pc /= "idle" /\ "failed" \in DOMAIN job) =>
       /\ jobOps[Len(jobOps)].op = job.failed
       /\ Cardinality({k \in 1..Len(jobOps) : jobOps[k] = jobOps[Len(jobOps)]}) = 1
  /\ job.pc /= "idle" =>
       \A k, n \in WriteOps : jobOps[k].id = jobOps[n].id => k = n
  /\ (FaultedList /\ req.pc = "done") =>
       /\ resp.status = 500 /\ resp.success = FALSE
       /\ Len(storeOps) <= 2
       /\ Len(storeOps) = 2 => storeOps[1].op /= storeOps[2].op

\* an answer, once sent, is the only one of its request, and a request whose
\* store call was rejected starts no further store call
OneAnswer ==
  /\ jobResp /= NoResp => (jobResp' = jobResp \/ job'.pc = "idle")
  /\ resp /= NoResp => (resp' = resp \/ req'.pc = "idle")
  /\ (FaultedJob /\ job'.pc /= "idle") => jobOps' = jobOps
  /\ (FaultedList /\ req'.pc /= "idle") => storeOps' = storeOps

\* C22: in every part endpoint a rejected store call is answered with one
\* server error (500, success false); the call is not started again and no
\* success is answered for that request.
C22_StoreErrors == [] CaughtAtBoundary /\ [][OneAnswer]_vars

\* a generation whose updates were applied and whose final find is rejected
C22_Witness ==
  /\ Generating /\ "failed" \in DOMAIN job /\ job.failed = "find"
  /\ Saved /= {} /\ jobResp.status = 500

\* ---------------------------------------------------------------- C23
\* C23: whatever generations, repairs and deletions have run, no two stored
\* parts have the same partNumber.
C23_UniquePartNumber ==
  \A p, r \in store : p.partNumber = r.partNumber => p = r

\* a second generation whose first code is new and whose second code is the
\* one a part of the first generation holds
C23_Witness ==
  /\ Len(hist) >= 1 /\ hist[1].kind = "generate"
  /\ Generating /\ jobResp.status = 500
  /\ Len(job.created) = 1 /\ Len(jobOps[1].docs) = 2
  /\ \E p \in hist[1].store :
       /\ p \in store
       /\ p.partNumber = jobOps[1].docs[2].partNumber
       /\ p.id /= jobOps[1].docs[2].id

\* ---------------------------------------------------------------- C24
\* part p without its child list
Own(p) == [p EXCEPT !.childParts = <<>>]

\* what a step of a repair does to the stored parts
RepairFrame ==
  (Repairing \/ Repairing') =>
    /\ {p.id : p \in store'} = {p.id : p \in store}
    /\ Cardinality(store') = Cardinality(store)
    /\ \A p \in store :
         LET p2 == PartById(store', p.id)
         IN  /\ Own(p2) = Own(p)
             /\ Len(p2.childParts) = Len(p.childParts)
             /\ p.childParts = <<>> => p2 = p
             /\ p2 /= p =>
                  /\ Repairing /\ p.id \in DOMAIN job.before
                  /\ \A i \in 1..Len(p.childParts) :
                       /\ p2.childParts[i].quantity = p.childParts[i].quantity
                       /\ p2.childParts[i].supplier = p.childParts[i].supplier
                       /\ \E r \in job.pool :
                            /\ p2.childParts[i].partNumber = r.partNumber
                            /\ p2.childParts[i].partName = r.partName
                            /\ p2.childParts[i].partDescription
                                 = r.partDescription

\* C24: a repair changes nothing but child entries: a rewritten list has the
\* length of the old one and its entry i is built from the old entry i; the
\* parent's own fields and the parts without children stay as they are, and
\* no part is created or deleted.
C24_RepairFrame == [][RepairFrame]_vars

\* a repair has rewritten the two children of one parent beside a part
\* without children
C24_Witness ==
  /\ Repairing
  /\ \E id \in Saved :
       /\ Len(job.before[id]) = 2
       /\ StoredChildren(id) /= job.before[id]
       /\ StoredChildren(id)[1].partNumber /= StoredChildren(id)[2].partNumber
  /\ \E p \in store : p.childParts = <<>>

\* ---------------------------------------------------------------- C25
\* the find of a listing answers
FindAnswers == req.pc = "find" /\ req'.pc = "done" /\ resp'.status = 200

\* C25: even when a generation or a deletion writes between the count and
\* the find of a listing, the answer has count <= total, and hasMore = false
\* only if the window reaches the end of the matching parts.
C25_AsStated ==
  [][FindAnswers =>
       /\ resp'.count <= resp'.total
       /\ ~resp'.hasMore =>
            req.skip + resp'.count >= Cardinality(Matching)
    ]_vars

====
